---- MODULE Spec2Model ----
(***************************************************************************)
(* DebounceLink (src/src/DebounceLink.ts): requests that share a           *)
(* debounceKey and arrive within the debounce interval of each other are   *)
(* collapsed into one downstream call with the last operation, and the     *)
(* events of that call are fanned out to every queued observer.            *)
(*                                                                         *)
(* Time is discrete.  A timer of the host (setTimeout) holds its delay and  *)
(* the ticks elapsed since it was armed; it is due when the two are equal  *)
(* and the clock does not advance past a due timer.  The downstream link is *)
(* the environment: a call emits next events, then one error or complete,  *)
(* some of them possibly inside subscribe() itself.                        *)
(***************************************************************************)
EXTENDS Integers, Sequences, FiniteSets, TLC

\* ---------------------------------------------------------------- bounds
MaxSubs == 2            \* subscriptions made in one behaviour
MaxNext == 1            \* next events one downstream call emits

\* ------------------------------------------------------------ parameters
Keys       == {"key1", "key2"}      \* truthy debounceKey values
NoKey      == "nokey"               \* context without debounceKey
Timeouts   == {0, 1}                \* context.debounceTimeout; 0: absent or zero
defaultDelay == 2                   \* constructor argument
SyncEvents == {<<>>, <<"complete">>, <<"error">>, <<"next">>}
                                    \* what a downstream call emits inside subscribe()

VARIABLES
    debounceInfo,   \* debounceKey -> DebounceMetadata, for the keys that have one
    timers,         \* the host's armed timers: [id, key, delay, elapsed]
    calls,          \* the downstream calls made so far, in order
    received,       \* observer -> the handler invocations made on it, in order
    handles         \* per subscription: what its unsubscribe closure captured

vars == <<debounceInfo, timers, calls, received, handles>>

Observers == 1..MaxSubs

\* ------------------------------------------------------- object helpers
\* delete obj[k]
Delete(obj, k) == [x \in DOMAIN obj \ {k} |-> obj[x]]

\* obj[k] = v
Put(obj, k, v) == [x \in DOMAIN obj \cup {k} |-> IF x = k THEN v ELSE obj[x]]

EmptyObject == [x \in {} |-> 0]

\* a predicate that keeps every observer
isNotObserverAlways(obs, observer) == TRUE

\* const isNotObserver = (obs: any) => obs !== observer
isNotObserver(obs, observer) == obs # observer

\* removal by splice(indexOf(observer), 1): an observer that is not in the
\* array has index -1, and splice(-1, 1) removes the last element
RECURSIVE filterSplice(_, _)
filterSplice(observers, observer) ==
    IF observers = <<>> THEN <<>>
    ELSE IF \A i \in DOMAIN observers : observers[i] # observer
         THEN SubSeq(observers, 1, Len(observers) - 1)
         ELSE IF Head(observers) = observer THEN Tail(observers)
              ELSE <<Head(observers)>> \o filterSplice(Tail(observers), observer)

\* removal of the first occurrence only
RECURSIVE filterFirst(_, _)
filterFirst(observers, observer) ==
    IF observers = <<>> THEN <<>>
    ELSE IF Head(observers) = observer THEN Tail(observers)
         ELSE <<Head(observers)>> \o filterFirst(Tail(observers), observer)

\* array.filter(isNotObserver)
RECURSIVE filter(_, _)
filter(observers, observer) ==
    IF observers = <<>> THEN <<>>
    ELSE IF isNotObserver(Head(observers), observer)
         THEN <<Head(observers)>> \o filter(Tail(observers), observer)
         ELSE filter(Tail(observers), observer)

\* ---------------------------------------------------------------- timers
setTimeout(tm, id, key, delay) ==
    tm \cup {[id |-> id, key |-> key, delay |-> delay, elapsed |-> 0]}

clearTimeout(tm, id) == {t \in tm : t.id # id}

\* ------------------------------------------------------ DebounceLink
setupDebounceInfo ==
    [runningSubscriptions |-> EmptyObject,
     queuedObservers      |-> <<>>,
     currentGroupId       |-> 0,
     timeout              |-> 0,
     lastRequest          |-> 0]

\* a link that ignores context.debounceTimeout
timerDelayDefault(debounceTimeout) == defaultDelay

\* debounceTimeout || this.defaultDelay
timerDelay(debounceTimeout) ==
    IF debounceTimeout # 0 THEN debounceTimeout ELSE defaultDelay

\* a link that leaves the previous timer armed
clearPendingNever(tm, dbi) == tm

\* if (dbi.timeout) clearTimeout(dbi.timeout)
clearPending(tm, dbi) ==
    IF dbi.timeout # 0 THEN clearTimeout(tm, dbi.timeout) ELSE tm

\* a link that keeps the first request of a batch
nextLastRequestKeepFirst(dbi, operation) ==
    IF dbi.queuedObservers # <<>> THEN dbi.lastRequest ELSE operation

\* dbi.lastRequest = { operation, forward }
nextLastRequest(dbi, operation) == operation

\* enqueueRequest: the new world; the group id it returns is
\* enqueueGroupId(w, debounceKey).  The timer is named after the observer.
enqueueGroupId(w, debounceKey) ==
    IF debounceKey \in DOMAIN w.info
    THEN w.info[debounceKey].currentGroupId
    ELSE setupDebounceInfo.currentGroupId

enqueueRequest(w, debounceKey, debounceTimeout, operation, observer) ==
    LET dbi == IF debounceKey \in DOMAIN w.info
               THEN w.info[debounceKey] ELSE setupDebounceInfo
        tm  == clearPending(w.timers, dbi)
        new == [dbi EXCEPT
                   !.queuedObservers = Append(@, observer),
                   !.lastRequest = nextLastRequest(dbi, operation),
                   !.timeout = observer]
    IN [w EXCEPT
           !.info = Put(@, debounceKey, new),
           !.timers = setTimeout(tm, observer, debounceKey,
                                 timerDelay(debounceTimeout))]

\* a cleanup that clears the timer whatever the group
cleanupTimersAlways(tm, dbi, groupId) == clearTimeout(tm, dbi.timeout)

\* a cleanup that leaves the timer armed
cleanupTimersNever(tm, dbi, groupId) == tm

\* a link with one timeout shared by all keys
cleanupTimersShared(tm, dbi, groupId) ==
    IF groupId = dbi.currentGroupId THEN {} ELSE tm

\* if (groupId === dbi.currentGroupId) clearTimeout(dbi.timeout)
cleanupTimers(tm, dbi, groupId) ==
    IF groupId = dbi.currentGroupId THEN clearTimeout(tm, dbi.timeout) ELSE tm

\* a cleanup that looks at the running subscriptions only
isIdleNoRunning(running, queued) == DOMAIN running = {}

\* noRunningSubscriptions && noQueuedObservers
isIdle(running, queued) == DOMAIN running = {} /\ queued = <<>>

cleanup(w, debounceKey, groupId) ==
    IF debounceKey \notin DOMAIN w.info THEN w
    ELSE LET dbi     == w.info[debounceKey]
             running == Delete(dbi.runningSubscriptions, groupId)
             tm      == cleanupTimers(w.timers, dbi, groupId)
         IN IF isIdle(running, dbi.queuedObservers)
            THEN [w EXCEPT !.info = Delete(@, debounceKey), !.timers = tm]
            ELSE [w EXCEPT !.info[debounceKey].runningSubscriptions = running,
                           !.timers = tm]

\* ------------------------------------------------ fan-out to observers
NextEvent(c, n)   == [type |-> "next", call |-> c, n |-> n]
ErrorEvent(c)     == [type |-> "error", call |-> c, n |-> 0]
CompleteEvent(c)  == [type |-> "complete", call |-> c, n |-> 0]

\* one handler invocation: observer.<handler>(v).  The observer keeps what
\* it is handed and the world the order of the invocations made in it.
invoke(w, observer, ev) ==
    [w EXCEPT !.received[observer] = Append(@, ev),
              !.order = Append(@, <<observer, ev>>)]

\* a loop that walks the observers from the last to the first
RECURSIVE forEachReverse(_, _, _)
forEachReverse(w, observers, ev) ==
    IF observers = <<>> THEN w
    ELSE forEachReverse(invoke(w, observers[Len(observers)], ev),
                        SubSeq(observers, 1, Len(observers) - 1), ev)

\* currentObservers.forEach(observer => observer.<handler>(v))
RECURSIVE forEach(_, _, _)
forEach(w, observers, ev) ==
    IF observers = <<>> THEN w
    ELSE forEach(invoke(w, Head(observers), ev), Tail(observers), ev)

\* the three handlers flush subscribes with, for downstream call c
onNext(w, c) ==
    LET call == w.calls[c]
    IN [forEach(w, call.currentObservers, NextEvent(c, call.nexts + 1))
           EXCEPT !.calls[c].nexts = @ + 1]

\* an error handler that tears down without telling the observers
onErrorSwallow(w, c) ==
    cleanup([w EXCEPT !.calls[c].state = "errored"],
            w.calls[c].key, w.calls[c].groupId)

onError(w, c) ==
    LET call == w.calls[c]
        w1 == [forEach(w, call.currentObservers, ErrorEvent(c))
                  EXCEPT !.calls[c].state = "errored"]
    IN cleanup(w1, call.key, call.groupId)

\* a complete handler that tears down without telling the observers
onCompleteSwallow(w, c) ==
    cleanup([w EXCEPT !.calls[c].state = "completed"],
            w.calls[c].key, w.calls[c].groupId)

onComplete(w, c) ==
    LET call == w.calls[c]
        w1 == [forEach(w, call.currentObservers, CompleteEvent(c))
                  EXCEPT !.calls[c].state = "completed"]
    IN cleanup(w1, call.key, call.groupId)

\* the events the downstream link emits before subscribe() returns
RECURSIVE emit(_, _, _)
emit(w, c, events) ==
    IF events = <<>> THEN w
    ELSE LET e  == Head(events)
             w1 == IF e = "next" THEN onNext(w, c)
                   ELSE IF e = "error" THEN onError(w, c)
                   ELSE onComplete(w, c)
         IN emit(w1, c, Tail(events))

\* forward(operation).subscribe(...): a new downstream call
newCall(key, groupId, operation, observers) ==
    [key |-> key, groupId |-> groupId, operation |-> operation,
     currentObservers |-> observers, state |-> "open",
     nexts |-> 0, unsubscribedIn |-> {}]

\* a flush that stays on the same group id
afterFlushNoIncrement(dbi, sub, currentObservers) ==
    [dbi EXCEPT
        !.runningSubscriptions =
            Put(@, dbi.currentGroupId, [subscription |-> sub,
                                        observers |-> currentObservers]),
        !.queuedObservers = <<>>]

\* a flush that leaves the queue as it is
afterFlushKeepQueue(dbi, sub, currentObservers) ==
    [dbi EXCEPT
        !.runningSubscriptions =
            Put(@, dbi.currentGroupId, [subscription |-> sub,
                                        observers |-> currentObservers]),
        !.currentGroupId = @ + 1]

\* dbi.runningSubscriptions[dbi.currentGroupId] = {...};
\* dbi.queuedObservers = []; dbi.currentGroupId++
afterFlush(dbi, sub, currentObservers) ==
    [dbi EXCEPT
        !.runningSubscriptions =
            Put(@, dbi.currentGroupId, [subscription |-> sub,
                                        observers |-> currentObservers]),
        !.queuedObservers = <<>>,
        !.currentGroupId = @ + 1]

\* flush.  Without metadata for the key, dbi.queuedObservers throws a
\* TypeError before anything is changed.
flush(w, debounceKey, sync) ==
    IF debounceKey \notin DOMAIN w.info THEN w
    ELSE
    LET dbi == w.info[debounceKey]
    IN IF dbi.queuedObservers = <<>> \/ dbi.lastRequest = 0 THEN w
       ELSE LET operation        == dbi.lastRequest
                currentObservers == dbi.queuedObservers
                groupId          == dbi.currentGroupId
                sub              == Len(w.calls) + 1
                w1 == [w EXCEPT !.calls = Append(@,
                          newCall(debounceKey, groupId, operation, currentObservers))]
                w2 == emit(w1, sub, sync)
            IN IF debounceKey \in DOMAIN w2.info
               THEN [w2 EXCEPT !.info[debounceKey] =
                        afterFlush(@, sub, currentObservers)]
               ELSE w2

\* a downstream subscription is closed by its subscriber
closeCall(cs, c) ==
    [cs EXCEPT ![c].state = IF @ = "open" THEN "unsubscribed" ELSE @]

\* a link that never unsubscribes from the downstream call
unsubscribeCallNever(cs, c) == cs

\* observerGroup.subscription.unsubscribe(), of downstream call c; the call
\* keeps the states in which DebounceLink invoked it
unsubscribeCall(cs, c) ==
    closeCall([cs EXCEPT ![c].unsubscribedIn = @ \cup {cs[c].state}], c)

\* an unsubscribe that ends the downstream call as soon as one observer of
\* its group leaves
unsubscribeEager(w, debounceKey, debounceGroupId, observer) ==
    IF debounceKey \notin DOMAIN w.info THEN w
    ELSE LET dbi == w.info[debounceKey]
         IN IF debounceGroupId = dbi.currentGroupId
            THEN LET queued == filter(dbi.queuedObservers, observer)
                     w1 == [w EXCEPT !.info[debounceKey].queuedObservers = queued]
                 IN IF queued = <<>>
                    THEN cleanup(w1, debounceKey, debounceGroupId)
                    ELSE w1
            ELSE IF debounceGroupId \in DOMAIN dbi.runningSubscriptions
                 THEN LET observerGroup == dbi.runningSubscriptions[debounceGroupId]
                      IN cleanup([w EXCEPT !.calls =
                                     unsubscribeCall(@, observerGroup.subscription)],
                                 debounceKey, debounceGroupId)
                 ELSE w

\* an unsubscribe that runs cleanup whether or not observers remain queued
unsubscribeAlwaysCleanup(w, debounceKey, debounceGroupId, observer) ==
    IF debounceKey \notin DOMAIN w.info THEN w
    ELSE LET dbi == w.info[debounceKey]
         IN IF debounceGroupId = dbi.currentGroupId
            THEN LET queued == filter(dbi.queuedObservers, observer)
                     w1 == [w EXCEPT !.info[debounceKey].queuedObservers = queued]
                     tm == clearTimeout(w1.timers, dbi.timeout)
                 IN IF isIdle(dbi.runningSubscriptions, queued)
                    THEN [w1 EXCEPT !.info = Delete(@, debounceKey), !.timers = tm]
                    ELSE [w1 EXCEPT !.timers = tm]
            ELSE IF debounceGroupId \in DOMAIN dbi.runningSubscriptions
                 THEN LET observerGroup == dbi.runningSubscriptions[debounceGroupId]
                          observers == filter(observerGroup.observers, observer)
                          w1 == [w EXCEPT
                                    !.info[debounceKey].runningSubscriptions[debounceGroupId].observers
                                        = observers]
                      IN IF observers = <<>>
                         THEN cleanup([w1 EXCEPT !.calls =
                                          unsubscribeCall(@, observerGroup.subscription)],
                                      debounceKey, debounceGroupId)
                         ELSE w1
                 ELSE w

unsubscribe(w, debounceKey, debounceGroupId, observer) ==
    IF debounceKey \notin DOMAIN w.info THEN w
    ELSE LET dbi == w.info[debounceKey]
         IN IF debounceGroupId = dbi.currentGroupId
            THEN LET queued == filter(dbi.queuedObservers, observer)
                     w1 == [w EXCEPT !.info[debounceKey].queuedObservers = queued]
                 IN IF queued = <<>>
                    THEN cleanup(w1, debounceKey, debounceGroupId)
                    ELSE w1
            ELSE IF debounceGroupId \in DOMAIN dbi.runningSubscriptions
                 THEN LET observerGroup == dbi.runningSubscriptions[debounceGroupId]
                          observers == filter(observerGroup.observers, observer)
                          w1 == [w EXCEPT
                                    !.info[debounceKey].runningSubscriptions[debounceGroupId].observers
                                        = observers]
                      IN IF observers = <<>>
                         THEN cleanup([w1 EXCEPT !.calls =
                                          unsubscribeCall(@, observerGroup.subscription)],
                                      debounceKey, debounceGroupId)
                         ELSE w1
                 ELSE w

\* ----------------------------------------------------------- the system
\* the state a handler starts in: it has invoked no observer yet
World == [info |-> debounceInfo, timers |-> timers,
          calls |-> calls, received |-> received, order |-> <<>>]

Become(w) ==
    /\ debounceInfo' = w.info
    /\ timers' = w.timers
    /\ calls' = w.calls
    /\ received' = w.received

Init ==
    /\ debounceInfo = EmptyObject
    /\ timers = {}
    /\ calls = <<>>
    /\ received = [o \in Observers |-> <<>>]
    /\ handles = <<>>

\* a link that debounces whatever the key
requestAlways(w, debounceKey, debounceTimeout, operation, observer) ==
    enqueueRequest(w, debounceKey, debounceTimeout, operation, observer)

\* request(), once the observable it returns is subscribed by the caller.
\* Every subscription executes an operation of its own, named after its
\* observer.  Without a debounceKey the downstream observable is returned
\* and the caller subscribes to it directly.
request(w, debounceKey, debounceTimeout, operation, observer) ==
    IF debounceKey = NoKey
    THEN [w EXCEPT !.calls =
             Append(@, newCall(NoKey, 0, operation, <<observer>>))]
    ELSE enqueueRequest(w, debounceKey, debounceTimeout, operation, observer)

\* what the returned subscription's unsubscribe captures
requestHandle(w, debounceKey, observer) ==
    [key |-> debounceKey,
     groupId |-> IF debounceKey = NoKey THEN 0
                 ELSE enqueueGroupId(w, debounceKey),
     observer |-> observer,
     call |-> IF debounceKey = NoKey THEN Len(w.calls) + 1 ELSE 0]

Submit(debounceKey, debounceTimeout) ==
    /\ Len(handles) < MaxSubs
    /\ LET observer == Len(handles) + 1
       IN /\ Become(request(World, debounceKey, debounceTimeout,
                            observer, observer))
          /\ handles' = Append(handles,
                               requestHandle(World, debounceKey, observer))

\* one unit of time passes; no armed timer is overdue
Tick ==
    /\ timers # {}
    /\ \A t \in timers : t.elapsed < t.delay
    /\ timers' = {[t EXCEPT !.elapsed = @ + 1] : t \in timers}
    /\ UNCHANGED <<debounceInfo, calls, received, handles>>

\* a due timer runs its callback, () => this.flush(debounceKey)
Fire(t, sync) ==
    /\ t \in timers
    /\ t.elapsed >= t.delay
    /\ Become(flush([World EXCEPT !.timers = @ \ {t}], t.key, sync))
    /\ UNCHANGED handles

\* the downstream link emits an event of an open call
DownstreamNext(c) ==
    /\ c \in DOMAIN calls
    /\ calls[c].state = "open"
    /\ calls[c].nexts < MaxNext
    /\ Become(onNext(World, c))
    /\ UNCHANGED handles

DownstreamError(c) ==
    /\ c \in DOMAIN calls
    /\ calls[c].state = "open"
    /\ Become(onError(World, c))
    /\ UNCHANGED handles

DownstreamComplete(c) ==
    /\ c \in DOMAIN calls
    /\ calls[c].state = "open"
    /\ Become(onComplete(World, c))
    /\ UNCHANGED handles

\* the caller unsubscribes with handle h: the function request() returned,
\* or for a request without a key the downstream subscription itself
afterUnsubscribe(w, h) ==
    IF h.key = NoKey
    THEN [w EXCEPT !.calls = closeCall(@, h.call)]
    ELSE unsubscribe(w, h.key, h.groupId, h.observer)

Unsubscribe(o) ==
    /\ o \in DOMAIN handles
    /\ Become(afterUnsubscribe(World, handles[o]))
    /\ UNCHANGED handles

Next ==
    \/ \E k \in Keys, d \in Timeouts : Submit(k, d)
    \/ Submit(NoKey, 0)
    \/ Tick
    \/ \E t \in timers, s \in SyncEvents : Fire(t, s)
    \/ \E c \in DOMAIN calls : DownstreamNext(c)
    \/ \E c \in DOMAIN calls : DownstreamError(c)
    \/ \E c \in DOMAIN calls : DownstreamComplete(c)
    \/ \E o \in DOMAIN handles : Unsubscribe(o)

Spec == Init /\ [][Next]_vars

\* ------------------------------------------------------------ vocabulary
Range(seq) == {seq[i] : i \in DOMAIN seq}

\* the observers queued for a key (none without metadata)
Queue(k) ==
    IF k \in DOMAIN debounceInfo THEN debounceInfo[k].queuedObservers ELSE <<>>

\* the armed timers of a key
TimersOf(k) == {t \in timers : t.key = k}

\* the most recent subscription made with key k (0: none)
LastSub(k) ==
    LET subs == {o \in DOMAIN handles : handles[o].key = k}
    IN IF subs = {} THEN 0 ELSE CHOOSE o \in subs : \A p \in subs : p <= o

\* the calls flush made
DebouncedCalls == {c \in DOMAIN calls : calls[c].key # NoKey}

\* the downstream calls that runningSubscriptions entries refer to
RunningCallsIn(info) ==
    UNION {{info[k].runningSubscriptions[g].subscription :
               g \in DOMAIN info[k].runningSubscriptions} : k \in DOMAIN info}

RunningCalls == RunningCallsIn(debounceInfo)

InSeq(x, seq) == \E i \in DOMAIN seq : seq[i] = x

\* observer o is queued or belongs to a running group, of whatever key
ListeningIn(info, o) ==
    \E k \in DOMAIN info :
        \/ InSeq(o, info[k].queuedObservers)
        \/ \E g \in DOMAIN info[k].runningSubscriptions :
               InSeq(o, info[k].runningSubscriptions[g].observers)

\* subscription h still has something to unsubscribe from in world w
IsListening(w, h) ==
    IF h.key = NoKey THEN w.calls[h.call].state = "open"
    ELSE ListeningIn(w.info, h.observer)

Listens(o) == IsListening(World, handles[o])

\* an unsubscribe takes the subscription out of every queue and running
\* group, in whatever state it is made
UnsubscribeRemoves ==
    \A o \in DOMAIN handles :
        ~IsListening(afterUnsubscribe(World, handles[o]), handles[o])

\* a subscription that is in no queue and no running group stays out
NeverReturns ==
    \A o \in DOMAIN handles : ~Listens(o) => ~Listens(o)'

\* everything downstream call c has emitted so far, in order
Emitted(c) ==
    [i \in 1..calls[c].nexts |-> NextEvent(c, i)]
    \o (IF calls[c].state = "completed" THEN <<CompleteEvent(c)>>
        ELSE IF calls[c].state = "errored" THEN <<ErrorEvent(c)>>
        ELSE <<>>)

\* this step subscribes observer o with key k
Subscribes(o, k) ==
    /\ Len(handles') = Len(handles) + 1
    /\ o = Len(handles')
    /\ handles'[o].key = k

\* this step makes downstream call c for key k
Calls(c, k) ==
    /\ Len(calls') > Len(calls)
    /\ c = Len(calls')
    /\ calls'[c].key = k

\* ------------------------------------------------------------------ C1
\* C1 (coalescing): a subscription made for a key while observers are
\* queued for it (the window of the previous one has not elapsed) joins
\* the queue and causes no downstream call; the flush makes exactly one
\* call, with the operation of the last subscription made for the key, on
\* behalf of every queued observer; no observer is served by two calls and
\* every observer of a call has been handed exactly the events that call
\* emitted, in order.
C1_Step ==
    \A k \in Keys :
        /\ \A o \in 1..MaxSubs :
               (Queue(k) # <<>> /\ Subscribes(o, k)) =>
                   /\ calls' = calls
                   /\ Queue(k)' = Append(Queue(k), o)
        /\ \A c \in 1..MaxSubs :
               Calls(c, k) =>
                   /\ Len(calls') = Len(calls) + 1
                   /\ calls'[c].operation = LastSub(k)
                   /\ calls'[c].currentObservers = Queue(k)
                   /\ Len(Queue(k)) >= 1
                   /\ Queue(k)' = <<>>

C1_State ==
    /\ \A c \in DebouncedCalls : \A o \in Range(calls[c].currentObservers) :
           received[o] = Emitted(c)
    /\ \A c1, c2 \in DebouncedCalls :
           c1 # c2 => Range(calls[c1].currentObservers)
                          \cap Range(calls[c2].currentObservers) = {}

C1_Coalescing == []C1_State /\ [][C1_Step]_vars

\* two subscriptions were coalesced into one call that ran the last
\* operation and completed; each observer has its next and its complete
C1_Witness ==
    \E c \in DebouncedCalls :
        /\ calls[c].currentObservers = <<1, 2>>
        /\ calls[c].operation = 2
        /\ calls[c].state = "completed"
        /\ Len(calls) = 1
        /\ \A o \in 1..2 : received[o] = <<NextEvent(c, 1), CompleteEvent(c)>>

\* ------------------------------------------------------------------ C2
\* C2 (window reset): every subscription for a key leaves exactly one timer
\* armed for that key, its own, with nothing elapsed; and a downstream call
\* for a key is made only in a step that starts with the timer of the most
\* recent subscription for that key due, that is, with its whole delay
\* elapsed since that subscription.
C2_Step ==
    \A k \in Keys :
        /\ \A o \in 1..MaxSubs :
               Subscribes(o, k) =>
                   /\ TimersOf(k)' # {}
                   /\ \A t \in TimersOf(k)' : t.id = o /\ t.elapsed = 0
        /\ \A c \in 1..MaxSubs :
               Calls(c, k) =>
                   \E t \in TimersOf(k) :
                       /\ t.id = LastSub(k)
                       /\ t.delay >= 1
                       /\ t.elapsed >= t.delay

C2_WindowReset == [][C2_Step]_vars

\* the first subscription had the short delay, the second one restarted the
\* window with the default delay: two ticks later, past the first window,
\* no call has been made and the second timer is due
C2_Witness ==
    /\ Queue("key1") = <<1, 2>>
    /\ calls = <<>>
    /\ timers = {[id |-> 2, key |-> "key1",
                  delay |-> defaultDelay, elapsed |-> defaultDelay]}

\* ------------------------------------------------------------------ C3
\* C3 (no flush on full cancel): an unsubscribe takes its observer out of
\* the queue and the observer never gets back in; the step that empties the
\* queue of a key without a flush makes no downstream call, leaves no timer
\* armed for the key and no event delivered to the observers that were
\* queued; no timer is ever armed for a key without queued observers; a
\* downstream call serves the observers queued at the flush and no others;
\* and an observer that no call serves has received nothing.
C3_Step ==
    /\ NeverReturns
    /\ \A k \in Keys :
        /\ (Queue(k) # <<>> /\ Queue(k)' = <<>> /\ Len(calls') = Len(calls)) =>
               /\ calls' = calls
               /\ TimersOf(k)' = {}
               /\ \A q \in Range(Queue(k)) : received'[q] = <<>> /\ ~Listens(q)'
        /\ \A c \in 1..MaxSubs :
               Calls(c, k) =>
                   Range(calls'[c].currentObservers) \subseteq Range(Queue(k))

C3_State ==
    /\ UnsubscribeRemoves
    /\ \A k \in Keys : TimersOf(k) # {} => Queue(k) # <<>>
    /\ \A o \in DOMAIN handles :
           (\A c \in DOMAIN calls : o \notin Range(calls[c].currentObservers))
               => received[o] = <<>>

C3_NoFlushOnFullCancel == []C3_State /\ [][C3_Step]_vars

\* both observers of a batch have unsubscribed: no call, no timer, no
\* metadata and no event
C3_Witness ==
    /\ Len(handles) = 2
    /\ \A o \in 1..2 : handles[o].key = "key1" /\ handles[o].groupId = 0
    /\ calls = <<>>
    /\ timers = {}
    /\ DOMAIN debounceInfo = {}
    /\ \A o \in 1..2 : received[o] = <<>>

\* ------------------------------------------------------------------ C4
\* C4 (running-call cancellation): an unsubscribe takes its observer out of
\* the running group and the observer never gets back in; every running
\* group has an observer left; and a downstream call flush made that has
\* neither completed nor failed is either still referred to by a running
\* group or has been unsubscribed, once and while it was open.  So when the
\* last observer of a call in flight unsubscribes, the group is removed and
\* the call is unsubscribed.
C4_State ==
    /\ UnsubscribeRemoves
    /\ \A k \in DOMAIN debounceInfo :
           \A g \in DOMAIN debounceInfo[k].runningSubscriptions :
               LET group == debounceInfo[k].runningSubscriptions[g]
               IN /\ group.observers # <<>>
                  /\ Range(group.observers)
                         \subseteq Range(calls[group.subscription].currentObservers)
    /\ \A c \in DebouncedCalls :
           /\ calls[c].state = "open" => c \in RunningCalls
           /\ calls[c].state = "unsubscribed" =>
                  c \notin RunningCalls /\ calls[c].unsubscribedIn = {"open"}
           /\ calls[c].state \in {"open", "unsubscribed",
                                   "completed", "errored"}

C4_RunningCancel == []C4_State /\ [][NeverReturns]_vars

\* a call made for two observers was unsubscribed after both left
C4_Witness ==
    \E c \in DebouncedCalls :
        /\ calls[c].currentObservers = <<1, 2>>
        /\ ~Listens(1) /\ ~Listens(2)
        /\ calls[c].state = "unsubscribed"
        /\ calls[c].nexts = 1
        /\ DOMAIN debounceInfo = {}

\* ------------------------------------------------------------------ C5
\* the metadata of a key, and the ids of its armed timers
Group(k) == IF k \in DOMAIN debounceInfo THEN <<debounceInfo[k]>> ELSE <<>>

ArmedOf(k) == {t.id : t \in TimersOf(k)}

\* C5 (key isolation): no step changes the metadata or the armed timers of
\* two keys; every downstream call serves only observers subscribed with the
\* call's key and runs an operation subscribed with that key; and every
\* event an observer has received is an event of a call made for its key.
C5_Step ==
    \A k1, k2 \in Keys :
        (k1 # k2 /\ (Group(k1)' # Group(k1) \/ ArmedOf(k1)' # ArmedOf(k1)))
            => (Group(k2)' = Group(k2) /\ ArmedOf(k2)' = ArmedOf(k2))

C5_State ==
    /\ \A c \in DOMAIN calls :
           /\ handles[calls[c].operation].key = calls[c].key
           /\ \A o \in Range(calls[c].currentObservers) :
                  handles[o].key = calls[c].key
    /\ \A o \in DOMAIN handles : \A i \in DOMAIN received[o] :
           calls[received[o][i].call].key = handles[o].key

C5_KeyIsolation == []C5_State /\ [][C5_Step]_vars

\* two keys subscribed within the same window: two calls, each with its own
\* operation, each observer with the events of its own call
C5_Witness ==
    /\ Len(calls) = 2
    /\ calls[1].key = "key1" /\ calls[1].operation = 1
    /\ calls[2].key = "key2" /\ calls[2].operation = 2
    /\ received[1] = <<NextEvent(1, 1), CompleteEvent(1)>>
    /\ received[2] = <<ErrorEvent(2)>>

\* ------------------------------------------------------------------ C6
\* C6 (idempotent cancel): an unsubscribe takes the subscription out of every
\* queue and running group; a subscription that is in none never gets back
\* in; and unsubscribing a subscription that is in none changes neither the
\* metadata, nor the timers, nor the downstream calls and their
\* unsubscriptions, nor what any observer has received.  So a second
\* unsubscribe, whenever it comes, changes nothing.
C6_State ==
    /\ UnsubscribeRemoves
    /\ \A o \in DOMAIN handles :
           ~Listens(o) => afterUnsubscribe(World, handles[o]) = World

C6_IdempotentCancel == []C6_State /\ [][NeverReturns]_vars

\* an observer has unsubscribed and another subscription of its key, which
\* a second unsubscribe could damage, is queued under the same group id
C6_Witness ==
    /\ Len(handles) = 2
    /\ ~Listens(1)
    /\ handles[1].key = "key1" /\ handles[2].key = "key1"
    /\ handles[1].groupId = handles[2].groupId
    /\ Queue("key1") = <<2>>
    /\ debounceInfo["key1"].currentGroupId = handles[1].groupId

\* ------------------------------------------------------------------ C7
\* C7 (bypass): the step that subscribes a request without debounceKey makes
\* its downstream call at once, with the request's own operation and for
\* its observer alone, and changes no metadata and no timer.
C7_Step ==
    \A o \in 1..MaxSubs :
        Subscribes(o, NoKey) =>
            /\ Len(calls') = Len(calls) + 1
            /\ calls'[Len(calls')] = newCall(NoKey, 0, o, <<o>>)
            /\ debounceInfo' = debounceInfo
            /\ timers' = timers

C7_Bypass == [][C7_Step]_vars

\* a request without key was forwarded while a debounced one was waiting
\* with its timer not yet due
C7_Witness ==
    /\ Len(calls) = 1
    /\ calls[1].key = NoKey /\ calls[1].operation = 2
    /\ Queue("key1") = <<1>>
    /\ \E t \in timers : t.id = 1 /\ t.elapsed = 0
    /\ received[2] = <<NextEvent(1, 1)>>

\* ------------------------------------------------------------------ C8
\* C8 (override precedence): after a subscription with debounceTimeout d for
\* a key, the only timer armed for the key is the one of that subscription,
\* with delay d when d is not zero and the default delay when it is zero or
\* absent.
C8_Step ==
    \A k \in Keys, d \in Timeouts :
        Submit(k, d) =>
            TimersOf(k)' =
                {[id |-> Len(handles'), key |-> k,
                  delay |-> IF d # 0 THEN d ELSE defaultDelay, elapsed |-> 0]}

C8_OverridePrecedence == [][C8_Step]_vars

\* a subscription was followed, a tick later, by one with an override,
\* whose shorter window is the one in force and is due
C8_Witness ==
    /\ Queue("key1") = <<1, 2>>
    /\ timers = {[id |-> 2, key |-> "key1", delay |-> 1, elapsed |-> 1]}
    /\ defaultDelay # 1

\* ------------------------------------------------------------------ C9
\* C9 (second to last): the operation a downstream call runs is the one of
\* the most recent subscription among the observers still queued at the
\* flush, which are the observers the call serves; they have received what
\* the call emitted, and an observer no call serves has received nothing.
C9_SecondToLast ==
    /\ \A c \in DebouncedCalls :
           /\ calls[c].operation \in Range(calls[c].currentObservers)
           /\ \A o \in Range(calls[c].currentObservers) :
                  /\ o <= calls[c].operation
                  /\ received[o] = Emitted(c)
    /\ \A o \in DOMAIN handles :
           (\A c \in DOMAIN calls : o \notin Range(calls[c].currentObservers))
               => received[o] = <<>>

\* ----------------------------------------------------------------- C10
\* C10 (outside the window): a subscription for a key whose queue is empty
\* starts a queue of its own, makes no call and leaves the running
\* subscriptions of the key as they are; the call a flush makes runs an
\* operation subscribed after every operation and every observer of the
\* earlier calls for the key; no observer is served by two calls; and every
\* event an observer has received is an event of the call that serves it.
C10_Step ==
    \A k \in Keys :
        /\ \A o \in 1..MaxSubs :
               (Queue(k) = <<>> /\ Subscribes(o, k)) =>
                   /\ calls' = calls
                   /\ Queue(k)' = <<o>>
                   /\ k \in DOMAIN debounceInfo =>
                          debounceInfo'[k].runningSubscriptions
                              = debounceInfo[k].runningSubscriptions
        /\ \A c \in 1..MaxSubs :
               Calls(c, k) =>
                   \A c1 \in DebouncedCalls :
                       calls[c1].key = k =>
                           /\ calls'[c].operation > calls[c1].operation
                           /\ \A q \in Range(calls[c1].currentObservers) :
                                  /\ calls'[c].operation > q
                                  /\ q \notin Range(calls'[c].currentObservers)

C10_State ==
    \A o \in DOMAIN handles : \A i \in DOMAIN received[o] :
        o \in Range(calls[received[o][i].call].currentObservers)

C10_OutsideWindow == []C10_State /\ [][C10_Step]_vars

\* a second subscription for the key arrived while the call of the first
\* was in flight: two calls, each with its own operation and observer, the
\* first still open when the second has completed
C10_Witness ==
    /\ Len(calls) = 2
    /\ calls[1].key = "key1" /\ calls[2].key = "key1"
    /\ calls[1].operation = 1 /\ calls[1].currentObservers = <<1>>
    /\ calls[2].operation = 2 /\ calls[2].currentObservers = <<2>>
    /\ calls[1].state = "open" /\ calls[2].state = "completed"
    /\ received[1] = <<>>
    /\ received[2] = <<CompleteEvent(2)>>

\* ----------------------------------------------------------------- C11
\* downstream call c reaches state st in this step
Reaches(c, st) ==
    /\ c \in DOMAIN calls'
    /\ calls'[c].state = st
    /\ c \in DOMAIN calls => calls[c].state # st

\* what observer o is handed in this step
Handed(o) == SubSeq(received'[o], Len(received[o]) + 1, Len(received'[o]))

\* the number of times observer o has received event ev
Times(o, ev) == Cardinality({i \in DOMAIN received[o] : received[o][i] = ev})

\* C11 (downstream failure): the step in which a call that flush made
\* reports an error hands that error, last and after next events of the
\* same call only, to every observer of the snapshot taken at the flush and
\* nothing to any other observer; when the step is over the group that ran
\* the call, if it was recorded, is gone; and the step makes no downstream
\* call other than, in a flush, the failing call itself.  Every observer of
\* an errored call has received its error exactly once, and the error of a
\* call that has not failed has been received by nobody.
C11_Step ==
    \A c \in 1..MaxSubs :
        (Reaches(c, "errored") /\ calls'[c].key # NoKey) =>
            /\ \A o \in Observers :
                   /\ Len(received'[o]) >= Len(received[o])
                   /\ SubSeq(received'[o], 1, Len(received[o])) = received[o]
                   /\ IF o \in Range(calls'[c].currentObservers)
                      THEN LET new == Handed(o)
                           IN /\ new # <<>>
                              /\ new[Len(new)] = ErrorEvent(c)
                              /\ \A i \in 1..(Len(new) - 1) :
                                     new[i].type = "next" /\ new[i].call = c
                      ELSE Handed(o) = <<>>
            /\ c \in RunningCalls => c \notin RunningCalls'
            /\ \A d \in DOMAIN calls' \ DOMAIN calls : d = c

C11_State ==
    \A c \in DebouncedCalls : \A o \in Observers :
        Times(o, ErrorEvent(c)) =
            IF calls[c].state = "errored"
               /\ o \in Range(calls[c].currentObservers)
            THEN 1 ELSE 0

C11_DownstreamFailure == []C11_State /\ [][C11_Step]_vars

\* the call made for two observers failed after a next event: each of them
\* holds the next and then the error, the metadata of the key is deleted and
\* no other call was made
C11_Witness ==
    /\ Len(calls) = 1
    /\ calls[1].currentObservers = <<1, 2>>
    /\ calls[1].state = "errored"
    /\ \A o \in 1..2 : received[o] = <<NextEvent(1, 1), ErrorEvent(1)>>
    /\ DOMAIN debounceInfo = {}

\* ----------------------------------------------------------------- C12
\* the number of terminal events of call c that observer o has received
Terminals(o, c) == Times(o, ErrorEvent(c)) + Times(o, CompleteEvent(c))

\* the events of observer o are next events followed by at most one
\* terminal event, which is then the last
WellFormed(o) ==
    \A i \in DOMAIN received[o] :
        received[o][i].type # "next" => i = Len(received[o])

\* C12 as claimed: a flushed generation whose downstream call is over has
\* delivered exactly one of error and completion to each of its observers.
C12_ExactlyOneTerminal ==
    \A c \in DebouncedCalls :
        calls[c].state # "open" =>
            \A o \in Range(calls[c].currentObservers) : Terminals(o, c) = 1

\* C12 (amended): an observer of a flushed generation has received exactly
\* one of error and completion when the downstream call has terminated, and
\* neither while the call is open or after it was unsubscribed; the terminal
\* event comes after the next events and is the last event the observer
\* receives: once the call is over, no step hands its observers anything.
C12_State ==
    \A c \in DebouncedCalls : \A o \in Range(calls[c].currentObservers) :
        /\ WellFormed(o)
        /\ Terminals(o, c) =
               IF calls[c].state \in {"completed", "errored"} THEN 1 ELSE 0
        /\ Times(o, ErrorEvent(c)) = 1 => calls[c].state = "errored"
        /\ Times(o, CompleteEvent(c)) = 1 => calls[c].state = "completed"

C12_Step ==
    \A c \in DebouncedCalls :
        calls[c].state # "open" =>
            /\ calls'[c].state = calls[c].state
            /\ \A o \in Range(calls[c].currentObservers) :
                   received'[o] = received[o]

C12_OneTerminal == []C12_State /\ [][C12_Step]_vars

\* one generation completed after a next event, another was cancelled by
\* its only observer after a next event and has no terminal event
C12_Witness ==
    \E c1, c2 \in DebouncedCalls :
        /\ calls[c1].state = "completed"
        /\ calls[c1].currentObservers = <<1>>
        /\ received[1] = <<NextEvent(c1, 1), CompleteEvent(c1)>>
        /\ calls[c2].state = "unsubscribed"
        /\ calls[c2].currentObservers = <<2>>
        /\ received[2] = <<NextEvent(c2, 1)>>

\* ----------------------------------------------------------------- C13
\* the running groups recorded for a key (none without metadata)
Running(k) ==
    IF k \in DOMAIN debounceInfo
    THEN DOMAIN debounceInfo[k].runningSubscriptions ELSE {}

\* C13 (group lifecycle): a key has metadata exactly when it has a queued
\* observer or a running group; metadata is created only by a subscription
\* for the key, which it queues; and metadata is deleted only by a step
\* that starts with a single queued observer or a single running group
\* left for the key, never while anything else remains.
C13_State ==
    \A k \in Keys :
        k \in DOMAIN debounceInfo <=> (Queue(k) # <<>> \/ Running(k) # {})

C13_Step ==
    \A k \in Keys :
        /\ (k \in DOMAIN debounceInfo /\ k \notin DOMAIN debounceInfo') =>
               /\ Len(Queue(k)) + Cardinality(Running(k)) = 1
               /\ handles' = handles
        /\ (k \notin DOMAIN debounceInfo /\ k \in DOMAIN debounceInfo') =>
               \E o \in 1..MaxSubs :
                   Subscribes(o, k) /\ Queue(k)' = <<o>> /\ Running(k)' = {}

C13_GroupLifecycle == []C13_State /\ [][C13_Step]_vars

\* the call of the first batch completed while a second batch was queued:
\* the metadata of the key is still there, with the queue only
C13_Witness ==
    /\ Len(calls) = 1
    /\ calls[1].key = "key1" /\ calls[1].state = "completed"
    /\ Queue("key1") = <<2>>
    /\ Running("key1") = {}

\* ----------------------------------------------------------------- C14
\* the variables of an operation, as the set of the fields they give a value
\* to: every subscription's operation comes with a field of its own
variables(operation) == {operation}

\* lodash.merge of two variables objects without a field in common
merge(object, source) == object \cup source

\* operations.map(variables).reduce(merge, {})
RECURSIVE reduceMerge(_)
reduceMerge(operations) ==
    IF operations = <<>> THEN {}
    ELSE merge(reduceMerge(SubSeq(operations, 1, Len(operations) - 1)),
               variables(operations[Len(operations)]))

\* C14 (merged variables): the downstream call of a flush carries the merge
\* of the variables of the operations of all the subscriptions queued for
\* the key at the flush.
C14_MergedVariables ==
    \A c \in DebouncedCalls :
        variables(calls[c].operation) = reduceMerge(calls[c].currentObservers)

\* ----------------------------------------------------------------- C15
\* C15 (generation allocation): of two downstream calls flush made for the
\* same key, the later one was recorded under the greater group id, so that
\* two subscriptions of a key whose handles hold the same group id are
\* never served by two different calls.
C15_GenerationAllocation ==
    /\ \A c1, c2 \in DebouncedCalls :
           (c1 < c2 /\ calls[c1].key = calls[c2].key) =>
               calls[c1].groupId < calls[c2].groupId
    /\ \A o1, o2 \in DOMAIN handles :
           (/\ handles[o1].key # NoKey
            /\ handles[o1].key = handles[o2].key
            /\ handles[o1].groupId = handles[o2].groupId) =>
               \A c1, c2 \in DebouncedCalls :
                   (/\ o1 \in Range(calls[c1].currentObservers)
                    /\ o2 \in Range(calls[c2].currentObservers)) => c1 = c2

\* ----------------------------------------------------------------- C16
\* C16 (timer and queue): a key has a timer armed exactly when it has
\* metadata with a non-empty queue; the timer is then the only one of the
\* key, it is the one the metadata refers to and there is a request to
\* forward; so the callback of every timer that fires finds observers to
\* flush and makes a downstream call for them.
C16_State ==
    /\ \A k \in Keys : TimersOf(k) # {} <=> Queue(k) # <<>>
    /\ \A t \in timers :
           /\ t.key \in DOMAIN debounceInfo
           /\ debounceInfo[t.key].timeout = t.id
           /\ debounceInfo[t.key].lastRequest # 0
           /\ \A u \in TimersOf(t.key) : u = t

C16_Step ==
    \A t \in timers : \A sync \in SyncEvents :
        Fire(t, sync) =>
            /\ Len(calls') = Len(calls) + 1
            /\ calls'[Len(calls')].key = t.key
            /\ calls'[Len(calls')].currentObservers = Queue(t.key)
            /\ Queue(t.key)' = <<>>

C16_TimerQueue == []C16_State /\ [][C16_Step]_vars

\* one key has a queue and its timer, the other has a call in flight, an
\* empty queue and no timer
C16_Witness ==
    /\ Queue("key1") = <<2>>
    /\ TimersOf("key1") # {}
    /\ "key2" \in DOMAIN debounceInfo
    /\ Queue("key2") = <<>>
    /\ Running("key2") # {}
    /\ TimersOf("key2") = {}

\* ----------------------------------------------------------------- C17
\* the invocations that hand event ev to the observers, one after the other
InOrder(observers, ev) == [i \in DOMAIN observers |-> <<observers[i], ev>>]

\* the next events among what observer o has received
IsNextEvent(ev) == ev.type = "next"

NextsOf(o) == SelectSeq(received[o], IsNextEvent)

\* C17 (fan-out order): the observers of a downstream call are the snapshot
\* taken at its flush, which no step changes; whenever the call emits a
\* next event, also inside subscribe(), the handler invokes every observer
\* of the snapshot once, in snapshot order, and nobody else, and the event
\* is appended to what each of them has received; so every observer holds
\* the next events of its call in the order in which the call emitted them.
C17_State ==
    /\ \A c \in DebouncedCalls :
           LET snapshot == calls[c].currentObservers
               ev       == NextEvent(c, calls[c].nexts + 1)
               w        == onNext(World, c)
           IN /\ calls[c].state = "open" =>
                     /\ w.order = InOrder(snapshot, ev)
                     /\ \A o \in Observers :
                            w.received[o] = IF o \in Range(snapshot)
                                            THEN Append(received[o], ev)
                                            ELSE received[o]
              /\ \A o \in Range(snapshot) :
                     NextsOf(o) = [i \in 1..calls[c].nexts |-> NextEvent(c, i)]
    /\ \A t \in timers :
           LET w == flush([World EXCEPT !.timers = @ \ {t}], t.key, <<"next">>)
               c == Len(calls) + 1
           IN /\ Len(w.calls) = c
              /\ w.calls[c].currentObservers = Queue(t.key)
              /\ w.order = InOrder(Queue(t.key), NextEvent(c, 1))

C17_Step ==
    \A c \in DOMAIN calls :
        calls'[c].currentObservers = calls[c].currentObservers

C18_Step ==
    \A c \in DebouncedCalls :
        LET k == calls[c].key
        IN (/\ calls[c].state = "open"
            /\ calls'[c].state # "open"
            /\ Queue(k) # <<>>) =>
               /\ k \in DOMAIN debounceInfo'
               /\ TimersOf(k)' = TimersOf(k)
               /\ TimersOf(k) # {}
               /\ Queue(k)' = Queue(k)
               /\ debounceInfo'[k].lastRequest = debounceInfo[k].lastRequest
               /\ debounceInfo'[k].timeout = debounceInfo[k].timeout
               /\ debounceInfo'[k].currentGroupId = debounceInfo[k].currentGroupId
               /\ debounceInfo[k].currentGroupId # calls[c].groupId
               /\ calls[c].groupId \in Running(k)
               /\ Running(k)' = Running(k) \ {calls[c].groupId}

C18_CleanupEarlierGroup == [][C18_Step]_vars

\* the call of the first batch was unsubscribed by its only observer while
\* a second batch was queued: the second batch still has its timer, due
C18_Witness ==
    /\ Len(calls) = 1
    /\ calls[1].key = "key1" /\ calls[1].state = "unsubscribed"
    /\ calls[1].currentObservers = <<1>>
    /\ Queue("key1") = <<2>>
    /\ debounceInfo["key1"].currentGroupId = 1
    /\ debounceInfo["key1"].lastRequest = 2
    /\ \E t \in timers : t.id = 2 /\ t.key = "key1" /\ t.elapsed = t.delay

\* ----------------------------------------------------------------- C19
\* C19 (partial cancel of the queue): the step in which an observer leaves
\* the queue of a key while others stay removes that observer from the queue
\* and changes nothing else: not the timers nor what has elapsed of them,
\* not the rest of the metadata, no call and no delivery.  The flush then
\* comes when the timer is due, makes one call and makes it for the
\* observers that are still queued; these hold the events of the call, and
\* an observer that no call serves holds none.
C19_Step ==
    \A k \in Keys :
        /\ (Queue(k) # <<>> /\ Queue(k)' # <<>>
                /\ Len(Queue(k)') < Len(Queue(k))) =>
               /\ \E o \in Range(Queue(k)) :
                      /\ Queue(k)' = filter(Queue(k), o)
                      /\ Len(Queue(k)') = Len(Queue(k)) - 1
                      /\ ~Listens(o)'
               /\ timers' = timers
               /\ debounceInfo' =
                      [debounceInfo EXCEPT ![k].queuedObservers = Queue(k)']
               /\ calls' = calls
               /\ received' = received
        /\ \A c \in 1..MaxSubs :
               Calls(c, k) =>
                   /\ Len(calls') = Len(calls) + 1
                   /\ calls'[c].currentObservers = Queue(k)
                   /\ \E t \in TimersOf(k) : t.elapsed = t.delay

C19_State ==
    \A o \in DOMAIN handles :
        LET served == {c \in DebouncedCalls : o \in Range(calls[c].currentObservers)}
        IN /\ Cardinality(served) <= 1
           /\ \A c \in served : received[o] = Emitted(c)
           /\ (handles[o].key # NoKey /\ served = {}) => received[o] = <<>>

C19_PartialCancel == []C19_State /\ [][C19_Step]_vars

\* the first of two queued observers unsubscribed a tick after the second
\* subscribed; the flush came a tick later, when the timer of the second
\* was due, and the one call served the second observer alone
C19_Witness ==
    /\ Len(handles) = 2
    /\ handles[1].key = "key1" /\ handles[2].key = "key1"
    /\ handles[1].groupId = handles[2].groupId
    /\ Len(calls) = 1
    /\ calls[1].currentObservers = <<2>>
    /\ calls[1].groupId = handles[1].groupId
    /\ calls[1].state = "completed"
    /\ received[1] = <<>>
    /\ received[2] = <<NextEvent(1, 1), CompleteEvent(1)>>

\* ----------------------------------------------------------------- C20
\* the observers of the running group of key k and group id g
GroupObservers(k, g) == debounceInfo[k].runningSubscriptions[g].observers

\* C20 (partial cancel of a running group): the step in which an observer
\* leaves a running group while others stay removes that observer from the
\* group and changes nothing else: the downstream call is not unsubscribed,
\* the group stays recorded, no delivery is made.  DebounceLink unsubscribes
\* a downstream call only in a step that starts with one observer left in
\* the group of the call, and that step removes the group.  Every observer
\* of the snapshot of a call, one that stays as well, holds all the events
\* the call has emitted.
C20_Step ==
    /\ \A k \in DOMAIN debounceInfo : \A g \in Running(k) :
           (/\ k \in DOMAIN debounceInfo' /\ g \in Running(k)'
            /\ GroupObservers(k, g)' # GroupObservers(k, g)) =>
               /\ \E o \in Range(GroupObservers(k, g)) :
                      /\ GroupObservers(k, g)' = filter(GroupObservers(k, g), o)
                      /\ ~Listens(o)'
               /\ GroupObservers(k, g)' # <<>>
               /\ debounceInfo' =
                      [debounceInfo EXCEPT
                          ![k].runningSubscriptions[g].observers
                              = GroupObservers(k, g)']
               /\ calls' = calls
               /\ timers' = timers
               /\ received' = received
    /\ \A c \in DebouncedCalls :
           calls'[c].unsubscribedIn # calls[c].unsubscribedIn =>
               \E k \in DOMAIN debounceInfo : \E g \in Running(k) :
                   /\ debounceInfo[k].runningSubscriptions[g].subscription = c
                   /\ Len(GroupObservers(k, g)) = 1
                   /\ c \notin RunningCalls'

C20_State ==
    \A c \in DebouncedCalls :
        /\ \A o \in Range(calls[c].currentObservers) : received[o] = Emitted(c)
        /\ calls[c].unsubscribedIn # {} => c \notin RunningCalls

C20_PartialRunningCancel == []C20_State /\ [][C20_Step]_vars

\* the first of the two observers of a call in flight has left its group:
\* the call is open, was never unsubscribed, the group is recorded with the
\* second observer and both observers hold the next event
C20_Witness ==
    \E c \in DebouncedCalls :
        /\ calls[c].currentObservers = <<1, 2>>
        /\ calls[c].state = "open"
        /\ calls[c].unsubscribedIn = {}
        /\ calls[c].nexts = 1
        /\ calls[c].key \in DOMAIN debounceInfo
        /\ calls[c].groupId \in Running(calls[c].key)
        /\ GroupObservers(calls[c].key, calls[c].groupId) = <<2>>
        /\ received[2] = <<NextEvent(c, 1)>>

\* ----------------------------------------------------------------- C21
\* the downstream call that serves observer o has completed or failed
Terminated(o) ==
    \E c \in DebouncedCalls :
        /\ o \in Range(calls[c].currentObservers)
        /\ calls[c].state \in {"completed", "errored"}

\* C21 (late cancel): unsubscribing a subscription whose downstream call
\* has completed or failed, or which is in no queue and no running group
\* any more, changes nothing: not the metadata of any key, also a re-created
\* one, not the timers, not the downstream calls or their unsubscriptions,
\* and not the queue or group of any other observer.
C21_LateCancel ==
    \A o \in DOMAIN handles :
        (handles[o].key # NoKey /\ (Terminated(o) \/ ~Listens(o))) =>
            afterUnsubscribe(World, handles[o]) = World

\* ----------------------------------------------------------------- C22
\* A caller of enqueueRequest that hands in an observer which is already
\* queued for the key ("the same observer is used for multiple
\* subscriptions", NOTE in unsubscribe).  The subscription is a new one, with
\* an operation and a handle of its own.
SubmitSame(debounceKey, debounceTimeout, observer) ==
    /\ Len(handles) < MaxSubs
    /\ observer \in Range(Queue(debounceKey))
    /\ LET operation == Len(handles) + 1
       IN /\ Become(request(World, debounceKey, debounceTimeout,
                            operation, observer))
          /\ handles' = Append(handles,
                               requestHandle(World, debounceKey, observer))

NextDup ==
    \/ Next
    \/ \E k \in Keys, d \in Timeouts, o \in Observers : SubmitSame(k, d, o)

SpecDup == Init /\ [][NextDup]_vars

\* the number of times observer o is queued for key k
Count(o, k) == Cardinality({i \in DOMAIN Queue(k) : Queue(k)[i] = o})

\* C22 (identity-based removal): when an observer is queued twice for a
\* key, the unsubscribe of either subscription removes every occurrence of
\* it and leaves the other observers queued, in order; if no other observer
\* was queued, the step clears the timer of the key and makes no call.  No
\* timer is armed for a key without queued observers and a call serves the
\* observers queued at the flush, so the batch is never flushed for the
\* registration that was not cancelled, whose observer receives nothing.
C22_Step ==
    \A k \in Keys :
        /\ \A h \in DOMAIN handles :
               LET o == handles[h].observer
               IN (handles[h].key = k /\ Count(o, k) >= 2 /\ Unsubscribe(h)) =>
                      /\ Count(o, k)' = 0
                      /\ Queue(k)' = SelectSeq(Queue(k), LAMBDA q : q # o)
                      /\ calls' = calls
                      /\ received' = received
                      /\ Range(Queue(k)) = {o} =>
                             /\ TimersOf(k)' = {}
                             /\ TimersOf(k) # {}
                             /\ Running(k) = {} => k \notin DOMAIN debounceInfo'
        /\ \A c \in 1..MaxSubs :
               Calls(c, k) =>
                   /\ Queue(k) # <<>>
                   /\ calls'[c].currentObservers = Queue(k)

C22_State ==
    /\ \A k \in Keys : TimersOf(k) # {} => Queue(k) # <<>>
    /\ \A o \in Observers :
           (\A c \in DOMAIN calls : o \notin Range(calls[c].currentObservers))
               => received[o] = <<>>

C22_IdentityRemoval == []C22_State /\ [][C22_Step]_vars

\* two subscriptions were made for a key with the same observer and nothing
\* is left of the batch: no metadata, no timer, no call, no event
C22_Witness ==
    /\ Len(handles) = 2
    /\ handles[1].key = "key1" /\ handles[2].key = "key1"
    /\ handles[1].observer = 1 /\ handles[2].observer = 1
    /\ handles[1].groupId = handles[2].groupId
    /\ DOMAIN debounceInfo = {}
    /\ timers = {}
    /\ calls = <<>>
    /\ received[1] = <<>>

\* ----------------------------------------------------------------- C23
\* Timers fire when they are due and every downstream call that stays open
\* ends with an error or a completion; callers subscribe and unsubscribe as
\* they please.
FairSpec ==
    /\ Spec
    /\ WF_vars(Tick)
    /\ WF_vars(\E t \in timers, sync \in SyncEvents : Fire(t, sync))
    /\ \A c \in 1..MaxSubs :
           WF_vars(DownstreamComplete(c) \/ DownstreamError(c))

\* observer o is in the snapshot of a call flush made
Served(o) ==
    \E c \in DebouncedCalls : o \in Range(calls[c].currentObservers)

\* observer o has received an error or a completion
HasTerminal(o) ==
    \E i \in DOMAIN received[o] : received[o][i].type # "next"

\* observer o has left its queue or group before its call ended
HasCancelled(o) ==
    /\ o \in DOMAIN handles
    /\ ~Listens(o)
    /\ ~Terminated(o)

\* C23 (liveness): a queued observer is eventually served by a downstream
\* call, unless it cancels; an observer served by a call eventually receives
\* an error or a completion, unless it cancels; and a key that has metadata
\* eventually has none.
C23_Liveness ==
    /\ \A k \in Keys : \A o \in Observers :
           (o \in Range(Queue(k))) ~> (Served(o) \/ HasCancelled(o))
    /\ \A o \in Observers :
           Served(o) ~> (HasTerminal(o) \/ HasCancelled(o))
    /\ \A k \in Keys :
           (k \in DOMAIN debounceInfo) ~> (k \notin DOMAIN debounceInfo)

\* ----------------------------------------------------------------- C24
\* the observers left in the running group of downstream call c (none when
\* no running group refers to the call)
Remaining(c) ==
    LET k == calls[c].key
        g == calls[c].groupId
    IN IF /\ k \in DOMAIN debounceInfo
          /\ g \in Running(k)
          /\ debounceInfo[k].runningSubscriptions[g].subscription = c
       THEN GroupObservers(k, g) ELSE <<>>

\* C24 (a cancelled observer is silent): an observer of the snapshot of a
\* call in flight that has left the running group of the call, while other
\* observers remain in it, has no handler invoked by any later step.
C24_Step ==
    \A c \in DebouncedCalls : \A o \in Range(calls[c].currentObservers) :
        (/\ calls[c].state = "open"
         /\ Remaining(c) # <<>>
         /\ o \notin Range(Remaining(c))) =>
            received'[o] = received[o]

C24_CancelledSilent == [][C24_Step]_vars

\* ----------------------------------------------------------------- C25
\* C25 (running records): every running group of a key is recorded under a
\* group id smaller than the current group id of the key and has an
\* observer left; no observer is in two running groups, of the same key or
\* of different keys, and none is in a running group and queued as well.
C25_RunningRecords ==
    /\ \A k \in DOMAIN debounceInfo : \A g \in Running(k) :
           /\ g < debounceInfo[k].currentGroupId
           /\ GroupObservers(k, g) # <<>>
           /\ Range(GroupObservers(k, g)) \cap Range(Queue(k)) = {}
    /\ \A k1, k2 \in DOMAIN debounceInfo :
           \A g1 \in Running(k1) : \A g2 \in Running(k2) :
               <<k1, g1>> # <<k2, g2>> =>
                   Range(GroupObservers(k1, g1))
                       \cap Range(GroupObservers(k2, g2)) = {}

\* two calls are in flight for a key, recorded under the group ids 0 and 1
C25_Witness ==
    /\ "key1" \in DOMAIN debounceInfo
    /\ Running("key1") = {0, 1}
    /\ debounceInfo["key1"].currentGroupId = 2
    /\ GroupObservers("key1", 0) = <<1>>
    /\ GroupObservers("key1", 1) = <<2>>

\* ----------------------------------------------------------------- C26
\* C26 (downstream unsubscribe): DebounceLink has invoked unsubscribe() on a
\* downstream call flush made only while the call was open: not a second
\* time, after the first invocation closed it, and not after the call
\* completed or failed.
C26_UnsubscribedOnce ==
    \A c \in DebouncedCalls : calls[c].unsubscribedIn \subseteq {"open"}

\* ----------------------------------------------------------------- C27
\* C27 (teardown after the terminal event): no running group refers to a
\* downstream call that has completed or failed, whether the terminal event
\* came after subscribe() returned or inside it; and a key with an empty
\* queue and no call in flight has no metadata.
C27_TerminalTeardown ==
    /\ \A c \in DebouncedCalls :
           calls[c].state \in {"completed", "errored"} => c \notin RunningCalls
    /\ \A k \in Keys :
           (/\ Queue(k) = <<>>
            /\ \A c \in DebouncedCalls :
                   calls[c].key = k => calls[c].state # "open")
               => k \notin DOMAIN debounceInfo

====
